---- MODULE Spec2Model ----
(***************************************************************************)
(* Waveshare 5.65" (F) e-paper driver, src/epd5in65f/mod.rs.               *)
(*                                                                         *)
(* The driver functions are straight-line code whose only control flow is  *)
(* the early return of `?`.  Each of them is therefore written as the      *)
(* sequence of transport primitives it executes, in order (an instruction  *)
(* list); the transport (DisplayInterface) executes one primitive per      *)
(* step: a bus write succeeds or fails, a busy-wait polls the busy line,   *)
(* which the panel drives independently of the driver.                     *)
(*                                                                         *)
(* Byte strings (slices, the bytes seen on the bus) are kept run-length    *)
(* encoded: a sequence of runs [v |-> byte, n |-> count], no two adjacent  *)
(* runs with the same byte.  A full frame is WIDTH*HEIGHT/2 bytes.         *)
(***************************************************************************)
EXTENDS Integers, Sequences, FiniteSets, TLC

\* ------------------------------------------------------------- the state
VARIABLES
  inst,       \* TRUE once `new` has returned Ok(epd)
  color,      \* EPD5in65f.color
  panel,      \* the panel's state: "Uninitialized", "Ready", "Sleeping"
  busy,       \* level of the busy line: "high" or "low"
  op,         \* the operation called last ("" before the first call)
  arg,        \* its buffer argument
  todo,       \* the primitives the running operation still has to execute
  trace,      \* what the operation has done on the reset line, bus and busy line
  result,     \* "none" while it runs, then "Ok" or the error it returned
  raised,     \* the error the bus raised during the operation, "none" if none
  polls,      \* busy-line reads that found the line busy (saturating)
  ctorTrace,  \* trace of the `new` that returned the instance
  prevWake,   \* in a wake_up: trace of the preceding call if it was a wake_up that
              \* returned Ok
  wokeFrom,   \* panel state in which the running wake_up was called
  ret,        \* the value the call returned: RetNone, a colour, a u32 or a bool
  params,     \* the non-buffer arguments of the call
  prevFull,   \* in a clear_frame: trace of the preceding call if it was an
              \* update_and_display_frame
              \* that returned Ok for the uniform full frame of the current colour
  lastSet     \* argument of the latest set_background_color, "" if never called

vars == << inst, color, panel, busy, op, arg, todo, trace, result, raised, polls,
           ctorTrace, prevWake, wokeFrom,
                  ret, params, prevFull, lastSet >>

\* ------------------------------------------------------------------ bounds
MaxBuf == 1        \* longest enumerated caller buffer (besides full frames)
MaxPolls == 1      \* the poll counter of one operation saturates here

\* ------------------------------------------------------- program constants
WIDTH == 600
HEIGHT == 448
DEFAULT_BACKGROUND_COLOR == "White"
IS_BUSY_LOW == TRUE

OctColor == {"Black", "White", "Green", "Blue", "Red", "Yellow", "Orange", "HiZ"}

Command == {"PANEL_SETTING", "POWER_SETTING", "POWER_OFF", "POWER_OFF_SEQUENCE_SETTING",
            "POWER_ON", "BOOSTER_SOFT_START", "DEEP_SLEEP", "DATA_START_TRANSMISSION_1",
            "DISPLAY_REFRESH", "PLL_CONTROL", "TEMPERATURE_SENSOR_COMMAND",
            "VCOM_AND_DATA_INTERVAL_SETTING", "TCON_SETTING", "TCON_RESOLUTION",
            "FLASH_MODE"}

\* the one transport error kind; two values so that "the same error" can be told
BusErrors == {"E1", "E2"}

\* byte values the enumerated caller buffers are made of
BufBytes == {17, 52}

\* --------------------------------------------------------- byte strings
Run(v, n) == [v |-> v, n |-> n]

\* append n copies of byte v to a run-length encoded byte string
AppendRun(rs, v, n) ==
  IF n = 0 THEN rs
  ELSE IF rs # <<>> /\ rs[Len(rs)].v = v
       THEN [rs EXCEPT ![Len(rs)] = Run(v, rs[Len(rs)].n + n)]
       ELSE Append(rs, Run(v, n))

RECURSIVE Slice(_)
\* the run-length encoding of a literal byte sequence
Slice(bytes) ==
  IF bytes = <<>> THEN <<>>
  ELSE AppendRun(Slice(SubSeq(bytes, 1, Len(bytes) - 1)), bytes[Len(bytes)], 1)

RECURSIVE ByteLen(_)
\* number of bytes of a run-length encoded byte string
ByteLen(rs) == IF rs = <<>> THEN 0 ELSE rs[1].n + ByteLen(Tail(rs))

\* `x as u8`
AsU8(x) == x % 256

\* `x >> 8` on u32
Shr8(x) == (x \div 256) % (2 ^ 24)

\* OctColor::get_nibble and OctColor::colors_byte: two 4-bit colour codes,
\* most significant nibble first
get_nibble(c) ==
  CASE c = "Black" -> 0 [] c = "White" -> 1 [] c = "Green" -> 2 [] c = "Blue" -> 3
    [] c = "Red" -> 4 [] c = "Yellow" -> 5 [] c = "Orange" -> 6 [] c = "HiZ" -> 7

colors_byte(a, b) == (get_nibble(a) * 16 + get_nibble(b)) % 256

\* ---------------------------------------------- transport primitives
\* One instruction = one primitive of DisplayInterface.  q is the `?` (or the
\* tail-position return) applied to the primitive's Result at its call site.
Instr(k, c, d, n) == [n |-> n, c |-> c, k |-> k, d |-> d, q |-> TRUE]

\* DisplayInterface::reset(delay, duration)
interface_reset(duration) == << Instr("reset", "", <<>>, duration) >>

\* DelayMs::delay_ms(ms)
delay_ms(ms) == << Instr("delay", "", <<>>, ms) >>

\* DisplayInterface::cmd(spi, command): one bus write of the opcode
interface_cmd(command) == << Instr("cmd", command, <<>>, 0) >>

\* DisplayInterface::data(spi, data): one data transaction
interface_data(data) == << Instr("data", "", data, 0) >>

\* DisplayInterface::cmd_with_data: command transaction, then data transaction
interface_cmd_with_data(command, data) == interface_cmd(command) \o interface_data(data)

\* DisplayInterface::data_x_times(spi, val, repetitions): one data transaction
\* of `repetitions` copies of val
interface_data_x_times(val, repetitions) ==
  << Instr("data", "", AppendRun(<<>>, val, repetitions), 0) >>

\* DisplayInterface::wait_until_idle(is_busy_low): spin while the line is at
\* the busy level
interface_wait_until_idle(is_busy_low) ==
  << Instr("wait", IF is_busy_low THEN "low" ELSE "high", <<>>, 0) >>

\* `let _ = expr;` : the Result of expr is dropped instead of propagated
Ignore(prog) == [i \in DOMAIN prog |-> [prog[i] EXCEPT !.q = FALSE]]

\* ------------------------------------------------ private driver helpers
width == WIDTH

\* height that returns the other dimension
height_swapped == WIDTH

height == HEIGHT

command(c) == interface_cmd(c)

send_data(data) == interface_data(data)

cmd_with_data(c, data) == interface_cmd_with_data(c, data)

\* wait_busy_high that returns without looking at the line
wait_busy_high_noWait == <<>>

wait_busy_high == interface_wait_until_idle(TRUE)

wait_busy_low == interface_wait_until_idle(FALSE)

\* send_resolution that sends each dimension low byte first
send_resolution_lowFirst ==
  LET w == width
      h == height
  IN  command("TCON_RESOLUTION")
      \o send_data(Slice(<< AsU8(w) >>))
      \o send_data(Slice(<< AsU8(Shr8(w)) >>))
      \o send_data(Slice(<< AsU8(h) >>))
      \o send_data(Slice(<< AsU8(Shr8(h)) >>))

send_resolution ==
  LET w == width
      h == height
  IN  command("TCON_RESOLUTION")
      \o send_data(Slice(<< AsU8(Shr8(w)) >>))
      \o send_data(Slice(<< AsU8(w) >>))
      \o send_data(Slice(<< AsU8(Shr8(h)) >>))
      \o send_data(Slice(<< AsU8(h) >>))

\* ------------------------------------------------------ driver operations

\* init that sends the panel setting before the reset
init_lateReset ==
  cmd_with_data("PANEL_SETTING", Slice(<< \hEF, \h08 >>))
    \o interface_reset(2)
    \o cmd_with_data("POWER_SETTING", Slice(<< \h37, \h00, \h23, \h23 >>))
    \o cmd_with_data("POWER_OFF_SEQUENCE_SETTING", Slice(<< \h00 >>))
    \o cmd_with_data("BOOSTER_SOFT_START", Slice(<< \hC7, \hC7, \h1D >>))
    \o cmd_with_data("PLL_CONTROL", Slice(<< \h3C >>))
    \o cmd_with_data("TEMPERATURE_SENSOR_COMMAND", Slice(<< \h00 >>))
    \o cmd_with_data("VCOM_AND_DATA_INTERVAL_SETTING", Slice(<< \h37 >>))
    \o cmd_with_data("TCON_SETTING", Slice(<< \h22 >>))
    \o send_resolution
    \o cmd_with_data("FLASH_MODE", Slice(<< \hAA >>))
    \o delay_ms(100)
    \o cmd_with_data("VCOM_AND_DATA_INTERVAL_SETTING", Slice(<< \h37 >>))

\* init that waits for the panel after the reset
init_waits ==
  interface_reset(2)
    \o wait_busy_high
    \o cmd_with_data("PANEL_SETTING", Slice(<< \hEF, \h08 >>))
    \o cmd_with_data("POWER_SETTING", Slice(<< \h37, \h00, \h23, \h23 >>))
    \o cmd_with_data("POWER_OFF_SEQUENCE_SETTING", Slice(<< \h00 >>))
    \o cmd_with_data("BOOSTER_SOFT_START", Slice(<< \hC7, \hC7, \h1D >>))
    \o cmd_with_data("PLL_CONTROL", Slice(<< \h3C >>))
    \o cmd_with_data("TEMPERATURE_SENSOR_COMMAND", Slice(<< \h00 >>))
    \o cmd_with_data("VCOM_AND_DATA_INTERVAL_SETTING", Slice(<< \h37 >>))
    \o cmd_with_data("TCON_SETTING", Slice(<< \h22 >>))
    \o send_resolution
    \o cmd_with_data("FLASH_MODE", Slice(<< \hAA >>))
    \o delay_ms(100)
    \o cmd_with_data("VCOM_AND_DATA_INTERVAL_SETTING", Slice(<< \h37 >>))

\* init that forgets to re-issue the VCOM setting after the delay
init_noSecondVcom ==
  interface_reset(2)
    \o cmd_with_data("PANEL_SETTING", Slice(<< \hEF, \h08 >>))
    \o cmd_with_data("POWER_SETTING", Slice(<< \h37, \h00, \h23, \h23 >>))
    \o cmd_with_data("POWER_OFF_SEQUENCE_SETTING", Slice(<< \h00 >>))
    \o cmd_with_data("BOOSTER_SOFT_START", Slice(<< \hC7, \hC7, \h1D >>))
    \o cmd_with_data("PLL_CONTROL", Slice(<< \h3C >>))
    \o cmd_with_data("TEMPERATURE_SENSOR_COMMAND", Slice(<< \h00 >>))
    \o cmd_with_data("VCOM_AND_DATA_INTERVAL_SETTING", Slice(<< \h37 >>))
    \o cmd_with_data("TCON_SETTING", Slice(<< \h22 >>))
    \o send_resolution
    \o cmd_with_data("FLASH_MODE", Slice(<< \hAA >>))
    \o delay_ms(100)

init ==
  interface_reset(2)
  \o cmd_with_data("PANEL_SETTING", Slice(<< \hEF, \h08 >>))
  \o cmd_with_data("POWER_SETTING", Slice(<< \h37, \h00, \h23, \h23 >>))
  \o cmd_with_data("POWER_OFF_SEQUENCE_SETTING", Slice(<< \h00 >>))
  \o cmd_with_data("BOOSTER_SOFT_START", Slice(<< \hC7, \hC7, \h1D >>))
  \o cmd_with_data("PLL_CONTROL", Slice(<< \h3C >>))
  \o cmd_with_data("TEMPERATURE_SENSOR_COMMAND", Slice(<< \h00 >>))
  \o cmd_with_data("VCOM_AND_DATA_INTERVAL_SETTING", Slice(<< \h37 >>))
  \o cmd_with_data("TCON_SETTING", Slice(<< \h22 >>))
  \o send_resolution
  \o cmd_with_data("FLASH_MODE", Slice(<< \hAA >>))
  \o delay_ms(100)
  \o cmd_with_data("VCOM_AND_DATA_INTERVAL_SETTING", Slice(<< \h37 >>))

new == init

\* wake_up with an "already awake" shortcut
wake_up_shortcut == IF panel = "Ready" THEN <<>> ELSE init

wake_up == init


\* sleep that waits for the panel before sending
sleep_waits == wait_busy_high \o cmd_with_data("DEEP_SLEEP", Slice(<< \hA5 >>))

sleep == cmd_with_data("DEEP_SLEEP", Slice(<< \hA5 >>))


\* update_frame that refuses a buffer that is not a full frame
update_frame_checked(buffer) ==
  IF ByteLen(buffer) # (WIDTH * HEIGHT) \div 2 THEN <<>>
  ELSE wait_busy_high
       \o send_resolution
       \o cmd_with_data("DATA_START_TRANSMISSION_1", buffer)

update_frame(buffer) ==
  wait_busy_high
  \o send_resolution
  \o cmd_with_data("DATA_START_TRANSMISSION_1", buffer)


\* display_frame with the same polarity in all four waits
display_frame_onePolarity ==
  wait_busy_high
  \o command("POWER_ON")
  \o wait_busy_high
  \o command("DISPLAY_REFRESH")
  \o wait_busy_high
  \o command("POWER_OFF")
  \o wait_busy_high

\* display_frame that refuses to run while the panel sleeps
display_frame_rejectsAsleep ==
  IF panel = "Sleeping" THEN <<>>
  ELSE wait_busy_high
       \o command("POWER_ON")
       \o wait_busy_high
       \o command("DISPLAY_REFRESH")
       \o wait_busy_high
       \o command("POWER_OFF")
       \o wait_busy_low

\* display_frame without the confirmation wait after POWER_OFF
display_frame_noFinalWait ==
  wait_busy_high
  \o command("POWER_ON")
  \o wait_busy_high
  \o command("DISPLAY_REFRESH")
  \o wait_busy_high
  \o command("POWER_OFF")

display_frame ==
  wait_busy_high
  \o command("POWER_ON")
  \o wait_busy_high
  \o command("DISPLAY_REFRESH")
  \o wait_busy_high
  \o command("POWER_OFF")
  \o wait_busy_low


\* update_and_display_frame that drops the Result of update_frame
update_and_display_frame_dropErr(buffer) ==
  Ignore(update_frame(buffer))
  \o display_frame

update_and_display_frame(buffer) ==
  update_frame(buffer)
  \o display_frame


\* clear_frame that fills one byte per pixel
clear_frame_wholeCount(self_color) ==
  LET bg == colors_byte(self_color, self_color)
  IN  wait_busy_high
      \o send_resolution
      \o command("DATA_START_TRANSMISSION_1")
      \o interface_data_x_times(bg, WIDTH * HEIGHT)
      \o display_frame

\* clear_frame that fills with the default colour instead of the current one
clear_frame_defaultColor(self_color) ==
  LET bg == colors_byte(DEFAULT_BACKGROUND_COLOR, DEFAULT_BACKGROUND_COLOR)
  IN  wait_busy_high
      \o send_resolution
      \o command("DATA_START_TRANSMISSION_1")
      \o interface_data_x_times(bg, (WIDTH * HEIGHT) \div 2)
      \o display_frame

\* clear_frame that drops the Result of the fill
clear_frame_dropErr(self_color) ==
  LET bg == colors_byte(self_color, self_color)
  IN  wait_busy_high
      \o send_resolution
      \o command("DATA_START_TRANSMISSION_1")
      \o Ignore(interface_data_x_times(bg, (WIDTH * HEIGHT) \div 2))
      \o display_frame

clear_frame(self_color) ==
  LET bg == colors_byte(self_color, self_color)
  IN  wait_busy_high
      \o send_resolution
      \o command("DATA_START_TRANSMISSION_1")
      \o interface_data_x_times(bg, (WIDTH * HEIGHT) \div 2)
      \o display_frame

\* returned values: nothing (or a Result without payload), &OctColor, u32, bool
RetNone == [n |-> 0, c |-> "", b |-> FALSE]

RetColor(x) == [n |-> 0, c |-> x, b |-> FALSE]

RetU32(x) == [n |-> x, c |-> "", b |-> FALSE]

RetBool(x) == [n |-> 0, c |-> "", b |-> x]

\* argument values << x, y, width, height >> tried for update_partial_frame
PartialRects == { << 0, 0, 0, 0 >>, << 0, 0, 600, 448 >>, << 8, 16, 32, 64 >> }

\* Option<RefreshLUT>
OptionRefreshLUT == {"None", "FULL", "QUICK"}

\* update_partial_frame that silently does nothing
update_partial_frame_ok(buffer, x, y, w, h) == "Ok"

update_partial_frame(buffer, x, y, w, h) == "unimplemented"

set_lut(refresh_rate) == "unimplemented"

\* background_color that returns the default
background_color_default(self_color) == DEFAULT_BACKGROUND_COLOR

background_color(self_color) == self_color

\* DisplayInterface::is_busy(is_busy_low), the line being at `level`
interface_is_busy(is_busy_low, level) ==
  \/ is_busy_low /\ level = "low"
  \/ ~is_busy_low /\ level = "high"

\* is_busy with the opposite polarity
is_busy_high(level) == interface_is_busy(FALSE, level)

is_busy(level) == interface_is_busy(IS_BUSY_LOW, level)

\* ------------------------------------------------------------ bus events
Ev(k, c, v, n) == [v |-> v, n |-> n, c |-> c, k |-> k]

EvReset(ms) == Ev("reset", "", 0, ms)

EvDelay(ms) == Ev("delay", "", 0, ms)

EvCmd(c) == Ev("cmd", c, 0, 0)

EvData(v, n) == Ev("data", "", v, n)

\* the wait returned having observed the busy line at `level`
EvWait(level) == Ev("wait", level, 0, 0)

\* one read of the busy line outside a wait, which saw it at `level`
EvRead(level) == Ev("read", level, 0, 0)

\* n more bytes v on the bus after the events of tr
AppendBytes(tr, v, n) ==
  IF n = 0 THEN tr
  ELSE IF tr # <<>> /\ tr[Len(tr)].k = "data" /\ tr[Len(tr)].v = v
       THEN [tr EXCEPT ![Len(tr)] = EvData(v, tr[Len(tr)].n + n)]
       ELSE Append(tr, EvData(v, n))

RECURSIVE AppendData(_, _)
\* the bytes of the run-length encoded string rs on the bus after tr
AppendData(tr, rs) ==
  IF rs = <<>> THEN tr
  ELSE AppendData(AppendBytes(tr, rs[1].v, rs[1].n), Tail(rs))

Running == op # "" /\ result = "none"

\* unimplemented!() has panicked: the thread of control is gone
Halted == result = "unimplemented"

FrameBytes == (WIDTH * HEIGHT) \div 2

RECURSIVE SeqsUpTo(_, _)
SeqsUpTo(S, n) ==
  IF n = 0 THEN { <<>> }
  ELSE LET R == SeqsUpTo(S, n - 1)
       IN  R \cup { Append(r, x) : r \in { r2 \in R : Len(r2) = n - 1 }, x \in S }

\* the caller buffers tried: every short byte string, and the full frame that
\* is uniformly of the current background colour
Buffers ==
  { Slice(b) : b \in SeqsUpTo(BufBytes, MaxBuf) }
    \cup { << Run(colors_byte(color, color), FrameBytes) >> }

Init ==
  /\ inst = FALSE
  /\ color = DEFAULT_BACKGROUND_COLOR
  /\ panel = "Uninitialized"
  /\ busy \in {"high", "low"}
  /\ op = ""
  /\ arg = <<>>
  /\ todo = <<>>
  /\ trace = <<>>
  /\ result = "none"
  /\ raised = "none"
  /\ polls = 0
  /\ ctorTrace = <<>>
  /\ prevWake = <<>>
  /\ wokeFrom = ""
  /\ ret = RetNone
  /\ params = <<>>
  /\ prevFull = <<>>
  /\ lastSet = ""

\* the uniform full frame of the current background colour
FullFrame == << Run(colors_byte(color, color), FrameBytes) >>

\* a call of operation `name` with buffer `a`, whose body executes `prog`
Begin(name, a, prog) ==
  /\ ~Running /\ ~Halted
  /\ ret' = RetNone
  /\ params' = <<>>
  /\ prevFull' = IF /\ name = "clear_frame"
                    /\ op = "update_and_display_frame" /\ result = "Ok" /\ arg = FullFrame
                 THEN trace ELSE <<>>
  /\ op' = name
  /\ arg' = a
  /\ todo' = prog
  /\ trace' = <<>>
  /\ result' = "none"
  /\ raised' = "none"
  /\ polls' = 0
  /\ prevWake' = IF name = "wake_up" /\ op = "wake_up" /\ result = "Ok"
                 THEN trace ELSE <<>>
  /\ wokeFrom' = IF name = "wake_up" THEN panel ELSE ""
  /\ UNCHANGED << inst, panel, busy, ctorTrace, lastSet >>

Call_new ==
  /\ ~inst
  /\ color' = DEFAULT_BACKGROUND_COLOR
  /\ Begin("new", <<>>, new)

\* wake_up that, like new, resets the colour to the default
Call_wake_up_resetsColor ==
  /\ inst
  /\ Begin("wake_up", <<>>, wake_up)
  /\ color' = DEFAULT_BACKGROUND_COLOR

Call_wake_up ==
  /\ inst
  /\ Begin("wake_up", <<>>, wake_up)
  /\ UNCHANGED color

Call_sleep ==
  /\ inst
  /\ Begin("sleep", <<>>, sleep)
  /\ UNCHANGED color

Call_update_frame ==
  /\ inst
  /\ \E buffer \in Buffers : Begin("update_frame", buffer, update_frame(buffer))
  /\ UNCHANGED color

Call_display_frame ==
  /\ inst
  /\ Begin("display_frame", <<>>, display_frame)
  /\ UNCHANGED color

Call_update_and_display_frame ==
  /\ inst
  /\ \E buffer \in Buffers :
       Begin("update_and_display_frame", buffer, update_and_display_frame(buffer))
  /\ UNCHANGED color

Call_clear_frame ==
  /\ inst
  /\ Begin("clear_frame", <<>>, clear_frame(color))
  /\ UNCHANGED color

set_background_color ==
  /\ inst
  /\ ~Running /\ ~Halted
  /\ ret' = RetNone
  /\ params' = <<>>
  /\ prevFull' = <<>>
  /\ \E c \in OctColor : color' = c /\ lastSet' = c
  /\ op' = "set_background_color"
  /\ arg' = <<>>
  /\ todo' = <<>>
  /\ trace' = <<>>
  /\ result' = "Ok"
  /\ raised' = "none"
  /\ polls' = 0
  /\ prevWake' = <<>>
  /\ wokeFrom' = ""
  /\ UNCHANGED << inst, panel, busy, ctorTrace >>

\* a call that returns (or panics) at once: outcome res, returned value r,
\* and tr what it did on the lines
Instant(name, a, p, res, r, tr) ==
  /\ inst
  /\ ~Running /\ ~Halted
  /\ op' = name
  /\ arg' = a
  /\ params' = p
  /\ todo' = <<>>
  /\ trace' = tr
  /\ result' = res
  /\ ret' = r
  /\ raised' = "none"
  /\ polls' = 0
  /\ prevWake' = <<>>
  /\ prevFull' = <<>>
  /\ wokeFrom' = ""
  /\ UNCHANGED << inst, color, panel, busy, ctorTrace, lastSet >>

Call_background_color ==
  Instant("background_color", <<>>, <<>>, "Ok", RetColor(background_color(color)), <<>>)

Call_width == Instant("width", <<>>, <<>>, "Ok", RetU32(width), <<>>)

Call_height == Instant("height", <<>>, <<>>, "Ok", RetU32(height), <<>>)

\* one read of the busy line
Call_is_busy ==
  Instant("is_busy", <<>>, <<>>, "Ok", RetBool(is_busy(busy)), << EvRead(busy) >>)

Call_update_partial_frame ==
  \E buffer \in Buffers, r \in PartialRects :
    Instant("update_partial_frame", buffer, r,
            update_partial_frame(buffer, r[1], r[2], r[3], r[4]), RetNone, <<>>)

Call_set_lut ==
  \E refresh_rate \in OptionRefreshLUT :
    Instant("set_lut", <<>>, << refresh_rate >>, set_lut(refresh_rate), RetNone, <<>>)

\* ------------------------------------------------- executing primitives
Head1 == todo[1]

\* the reset line is pulsed: the panel is back in its post-power-on state
DoReset ==
  /\ Running /\ todo # <<>> /\ Head1.k = "reset"
  /\ trace' = Append(trace, EvReset(Head1.n))
  /\ panel' = "Uninitialized"
  /\ todo' = Tail(todo)
  /\ UNCHANGED << inst, color, busy, op, arg, result, raised, polls, ctorTrace,
                  prevWake, wokeFrom,
                  ret, params, prevFull, lastSet >>

DoDelay ==
  /\ Running /\ todo # <<>> /\ Head1.k = "delay"
  /\ trace' = Append(trace, EvDelay(Head1.n))
  /\ todo' = Tail(todo)
  /\ UNCHANGED << inst, color, panel, busy, op, arg, result, raised, polls,
                  ctorTrace, prevWake, wokeFrom,
                  ret, params, prevFull, lastSet >>

\* the bus accepts the write
BusWriteOk ==
  /\ Running /\ todo # <<>> /\ Head1.k \in {"cmd", "data"}
  /\ trace' = IF Head1.k = "cmd" THEN Append(trace, EvCmd(Head1.c))
                                 ELSE AppendData(trace, Head1.d)
  /\ todo' = Tail(todo)
  /\ UNCHANGED << inst, color, panel, busy, op, arg, result, raised, polls,
                  ctorTrace, prevWake, wokeFrom,
                  ret, params, prevFull, lastSet >>

\* the bus write fails with error e: the primitive returns Err(e), which `?`
\* returns from the operation; a failed write is not recorded in the trace
BusWriteFail ==
  /\ Running /\ todo # <<>> /\ Head1.k \in {"cmd", "data"}
  /\ \E e \in BusErrors :
       /\ raised' = IF raised = "none" THEN e ELSE raised
       /\ result' = IF Head1.q THEN e ELSE result
  /\ todo' = IF Head1.q THEN <<>> ELSE Tail(todo)
  /\ UNCHANGED << inst, color, panel, busy, op, arg, trace, polls, ctorTrace,
                  prevWake, wokeFrom,
                  ret, params, prevFull, lastSet >>

\* DisplayInterface::is_busy(is_busy_low) with the wait's polarity
LineBusy == Head1.c = busy

\* one iteration of the wait loop that finds the line busy
PollBusy ==
  /\ Running /\ todo # <<>> /\ Head1.k = "wait"
  /\ LineBusy
  /\ polls' = IF polls < MaxPolls THEN polls + 1 ELSE polls
  /\ UNCHANGED << inst, color, panel, busy, op, arg, todo, trace, result, raised,
                  ctorTrace, prevWake, wokeFrom,
                  ret, params, prevFull, lastSet >>

\* the wait loop reads the line not busy and returns
WaitDone ==
  /\ Running /\ todo # <<>> /\ Head1.k = "wait"
  /\ ~LineBusy
  /\ trace' = Append(trace, EvWait(busy))
  /\ todo' = Tail(todo)
  /\ UNCHANGED << inst, color, panel, busy, op, arg, result, raised, polls,
                  ctorTrace, prevWake, wokeFrom,
                  ret, params, prevFull, lastSet >>

\* the operation's body ran to its end: Ok(..)
Return ==
  /\ Running /\ todo = <<>>
  /\ result' = "Ok"
  /\ inst' = (inst \/ op = "new")
  /\ ctorTrace' = IF op = "new" THEN trace ELSE ctorTrace
  /\ panel' = IF op \in {"new", "wake_up"} THEN "Ready"
              ELSE IF op = "sleep" THEN "Sleeping" ELSE panel
  /\ UNCHANGED << color, busy, op, arg, todo, trace, raised, polls, prevWake,
                  wokeFrom,
                  ret, params, prevFull, lastSet >>

\* the panel drives the busy line
PanelDrive ==
  /\ busy' = IF busy = "high" THEN "low" ELSE "high"
  /\ UNCHANGED << inst, color, panel, op, arg, todo, trace, result, raised, polls,
                  ctorTrace, prevWake, wokeFrom,
                  ret, params, prevFull, lastSet >>

Next ==
  \/ Call_new
  \/ Call_wake_up
  \/ Call_sleep
  \/ Call_update_frame
  \/ Call_display_frame
  \/ Call_update_and_display_frame
  \/ Call_clear_frame
  \/ set_background_color
  \/ Call_background_color
  \/ Call_width
  \/ Call_height
  \/ Call_is_busy
  \/ Call_update_partial_frame
  \/ Call_set_lut
  \/ DoReset
  \/ DoDelay
  \/ BusWriteOk
  \/ BusWriteFail
  \/ PollBusy
  \/ WaitDone
  \/ Return
  \/ PanelDrive

Spec == Init /\ [][Next]_vars

\* a running operation is at a busy-wait and the line is at the busy level
Waiting == Running /\ todo # <<>> /\ Head1.k = "wait" /\ LineBusy

\* the panel releases the line the driver is waiting on
PanelRelease == Waiting /\ PanelDrive

\* the driver's own steps: the code keeps executing
DriverStep == DoReset \/ DoDelay \/ BusWriteOk \/ BusWriteFail \/ Return

\* The driver keeps running and nothing is assumed of the panel: the busy line
\* may stay at either level forever.
DriverFairSpec ==
  /\ Init /\ [][Next]_vars
  /\ WF_vars(DriverStep)

\* The driver keeps running; the panel eventually drives the busy line to the
\* level a wait is waiting for, and the tight polling loop then sees it.
FairSpec ==
  /\ Init /\ [][Next]_vars
  /\ WF_vars(DriverStep)
  /\ WF_vars(PanelRelease)
  /\ SF_vars(WaitDone)

TypeOK ==
  /\ inst \in BOOLEAN
  /\ color \in OctColor
  /\ panel \in {"Uninitialized", "Ready", "Sleeping"}
  /\ busy \in {"high", "low"}
  /\ result \in {"none", "Ok", "unimplemented"} \cup BusErrors
  /\ raised \in {"none"} \cup BusErrors
  /\ polls \in 0..MaxPolls

\* ============================================================== properties
FrameOps == {"update_frame", "display_frame", "update_and_display_frame", "clear_frame"}

Done(name) == op = name /\ result = "Ok"

\* a command transaction followed by its parameter bytes, as seen on the bus
Tx(c, bytes) == AppendData(<< EvCmd(c) >>, Slice(bytes))

HasCmd(tr, c) == \E i \in DOMAIN tr : tr[i] = EvCmd(c)

CountKind(tr, k) == Cardinality({ i \in DOMAIN tr : tr[i].k = k })

CountCmd(tr, c) == Cardinality({ i \in DOMAIN tr : tr[i] = EvCmd(c) })

IsPrefix(a, b) == Len(a) <= Len(b) /\ SubSeq(b, 1, Len(a)) = a

\* the documented initialization table
InitSequence ==
  << EvReset(2) >>
  \o Tx("PANEL_SETTING", << 239, 8 >>)
  \o Tx("POWER_SETTING", << 55, 0, 35, 35 >>)
  \o Tx("POWER_OFF_SEQUENCE_SETTING", << 0 >>)
  \o Tx("BOOSTER_SOFT_START", << 199, 199, 29 >>)
  \o Tx("PLL_CONTROL", << 60 >>)
  \o Tx("TEMPERATURE_SENSOR_COMMAND", << 0 >>)
  \o Tx("VCOM_AND_DATA_INTERVAL_SETTING", << 55 >>)
  \o Tx("TCON_SETTING", << 34 >>)
  \o Tx("TCON_RESOLUTION", << 2, 88, 1, 192 >>)
  \o Tx("FLASH_MODE", << 170 >>)
  \o << EvDelay(100) >>
  \o Tx("VCOM_AND_DATA_INTERVAL_SETTING", << 55 >>)

ResolutionSeq == Tx("TCON_RESOLUTION", << 2, 88, 1, 192 >>)

DisplaySeq ==
  << EvWait("high"), EvCmd("POWER_ON"), EvWait("high"), EvCmd("DISPLAY_REFRESH"),
     EvWait("high"), EvCmd("POWER_OFF"), EvWait("low") >>

UpdateSeq(buffer) ==
  << EvWait("high") >> \o ResolutionSeq
    \o AppendData(<< EvCmd("DATA_START_TRANSMISSION_1") >>, buffer)

\* C1: an initialization (by new or by wake_up) in which no bus write failed
\* has performed the reset and then exactly the documented sequence of
\* command+parameter transactions, the 100 ms delay before the second VCOM.
C1_InitSequence ==
  (op \in {"new", "wake_up"} /\ result = "Ok" /\ raised = "none") => trace = InitSequence

C1_Witness == Done("new") /\ raised = "none" /\ Len(trace) = Len(InitSequence)

\* C2: a successful display_frame has produced wait, POWER_ON, wait,
\* DISPLAY_REFRESH, wait, POWER_OFF, wait: three bare commands, four waits,
\* no data byte, however many polls the waits took.
C2_DisplayFrame ==
  Done("display_frame") =>
    /\ [i \in DOMAIN trace |-> trace[i].k]
         = << "wait", "cmd", "wait", "cmd", "wait", "cmd", "wait" >>
    /\ << trace[2].c, trace[4].c, trace[6].c >> = << "POWER_ON", "DISPLAY_REFRESH", "POWER_OFF" >>
    /\ CountKind(trace, "wait") = 4
    /\ CountKind(trace, "data") = 0

C2_Witness == Done("display_frame") /\ polls = MaxPolls /\ polls > 0

\* C3: once a bus write of an operation has failed, the operation has returned
\* that very error, has nothing left to execute, performs no further write,
\* wait or delay, and a failed new has returned no instance.
C3_FailureHalts ==
  /\ [](raised # "none" =>
         /\ result = raised
         /\ todo = <<>>
         /\ (op = "new" => ~inst))
  /\ [][(raised # "none" /\ raised' # "none") => (trace' = trace /\ polls' = polls)]_vars

C3_Witness ==
  /\ op = "clear_frame" /\ result = "E2" /\ raised = "E2"
  /\ HasCmd(trace, "DISPLAY_REFRESH") /\ ~HasCmd(trace, "POWER_OFF")

\* C4: a successful clear_frame has done one wait, the resolution sequence,
\* DATA_START_TRANSMISSION_1, 134400 data bytes all colors_byte(c, c) for the
\* colour c current at the call, and then the display_frame sequence.
C4_ClearFrame ==
  Done("clear_frame") =>
    trace = << EvWait("high") >> \o ResolutionSeq
              \o << EvCmd("DATA_START_TRANSMISSION_1"),
                    EvData(colors_byte(color, color), 134400) >>
              \o DisplaySeq

C4_Witness == Done("clear_frame") /\ color = "Orange"

C6_Sleep ==
  Done("sleep") =>
    /\ trace = << EvCmd("DEEP_SLEEP"), EvData(165, 1) >>
    /\ polls = 0

C6_Witness == Done("sleep") /\ panel = "Sleeping"

\* C7: from any state a successful wake_up has emitted the sequence that new
\* emitted (reset first, both VCOM emissions), and the same sequence as the
\* wake_up immediately before it.
C7_WakeNoShortcut ==
  Done("wake_up") =>
    /\ trace = ctorTrace
    /\ trace # <<>> /\ trace[1].k = "reset"
    /\ CountCmd(trace, "VCOM_AND_DATA_INTERVAL_SETTING") = 2
    /\ prevWake # <<>> => trace = prevWake

C7_Witness ==
  Done("wake_up") /\ prevWake # <<>> /\ wokeFrom = "Ready" /\ color # DEFAULT_BACKGROUND_COLOR

\* C8: the trace of a successful update_and_display_frame(buffer) is the trace
\* of update_frame(buffer) followed by that of display_frame; POWER_ON is sent
\* only after the whole update part, and never after a failure.
C8_UpdateAndDisplay ==
  op = "update_and_display_frame" =>
    /\ result = "Ok" => trace = UpdateSeq(arg) \o DisplaySeq
    /\ HasCmd(trace, "POWER_ON") => IsPrefix(UpdateSeq(arg), trace)
    /\ (raised # "none" /\ ~HasCmd(trace, "POWER_ON")) => (todo = <<>> /\ result = raised)

C8_Witness ==
  /\ op = "update_and_display_frame" /\ result \in BusErrors
  /\ HasCmd(trace, "DATA_START_TRANSMISSION_1") /\ ~HasCmd(trace, "POWER_ON")
  /\ ByteLen(arg) > 0 /\ trace[Len(trace)].k = "cmd"

\* C9: with a panel that eventually releases the busy line, every call of a
\* frame operation eventually returns; each frame operation starts with a
\* busy-wait, and while a wait finds the line at its busy level and the line
\* does not change, the call neither returns nor yields any result or error.
C9_BusyWait ==
  /\ [](op \in FrameOps => <>(result # "none"))
  /\ []((op \in FrameOps /\ trace = <<>> /\ raised = "none")
          => (Running /\ todo # <<>> /\ Head1.k = "wait" /\ Head1.c = "low"))
  /\ [][(Waiting /\ busy' = busy) =>
          (result' = "none" /\ todo' = todo /\ trace' = trace /\ raised' = raised /\ op' = op)]_vars

C9_Witness == Done("clear_frame") /\ polls > 0

\* C10 as stated: a frame operation invoked while the panel is Sleeping does
\* not return Ok and puts no command or data byte on the bus.
C10_RejectedWhileSleeping ==
  (panel = "Sleeping" /\ op \in FrameOps) =>
    (result # "Ok" /\ CountKind(trace, "cmd") = 0 /\ CountKind(trace, "data") = 0)

\* the events a successful frame operation is documented to produce
FrameSeq ==
  CASE op = "update_frame" -> UpdateSeq(arg)
    [] op = "display_frame" -> DisplaySeq
    [] op = "update_and_display_frame" -> UpdateSeq(arg) \o DisplaySeq
    [] op = "clear_frame" -> UpdateSeq(<< Run(colors_byte(color, color), 134400) >>) \o DisplaySeq
    [] OTHER -> <<>>

\* C10 (amended): the driver does not track the Sleeping state; a frame
\* operation invoked while the panel is Sleeping is not rejected, it runs as
\* in the Ready state: its only errors are bus errors and on success it has
\* put its usual sequence on the bus.
C10_NotRejectedWhileSleeping ==
  (panel = "Sleeping" /\ op \in FrameOps) =>
    /\ result \in BusErrors => result = raised
    /\ result = "Ok" => (trace = FrameSeq /\ CountKind(trace, "cmd") > 0)

C10_Witness == panel = "Sleeping" /\ Done("display_frame") /\ HasCmd(trace, "POWER_ON")

\* ---------------------------------------------------------------------------
BusTraffic(tr) == CountKind(tr, "cmd") + CountKind(tr, "data")

LineReads(tr) == CountKind(tr, "wait") + CountKind(tr, "read")

\* C11: set_background_color and background_color return at once with no bus
\* traffic, no busy-line read and no reset, in any state; background_color
\* returns the latest set_background_color value, White if there was none.
C11_ColorAccessors ==
  /\ [](op \in {"set_background_color", "background_color"} =>
          /\ result = "Ok" /\ todo = <<>>
          /\ trace = <<>> /\ polls = 0 /\ raised = "none")
  /\ [](op = "background_color" =>
          ret = RetColor(IF lastSet = "" THEN "White" ELSE lastSet))
  /\ [][(op' \in {"set_background_color", "background_color"} /\ busy' = busy)
          => (panel' = panel /\ inst' = inst)]_vars

C11_Witness == op = "background_color" /\ lastSet = "Blue" /\ panel = "Sleeping"

\* C12: whatever the driver state, width() returns 600 and height() 448.
C12_FixedResolution ==
  /\ op = "width" => (result = "Ok" /\ ret = RetU32(600))
  /\ op = "height" => (result = "Ok" /\ ret = RetU32(448))

C12_Witness == op = "height" /\ panel = "Sleeping" /\ color = "Green"

\* C13: update_partial_frame and set_lut end as not implemented for every
\* state and argument, never Ok and never a transport error, before any bus
\* write, busy-line read or change of driver state.
C13_Unimplemented ==
  /\ [](op \in {"update_partial_frame", "set_lut"} =>
          /\ result = "unimplemented"
          /\ trace = <<>> /\ polls = 0 /\ todo = <<>> /\ raised = "none")
  /\ [][(op' \in {"update_partial_frame", "set_lut"} /\ busy' = busy)
          => (color' = color /\ panel' = panel /\ inst' = inst)]_vars

C13_Witness ==
  /\ op = "update_partial_frame" /\ panel = "Ready" /\ ByteLen(arg) = FrameBytes
  /\ params = << 0, 0, 600, 448 >>

\* C14: is_busy reads the busy line once, returns TRUE exactly when it read
\* the line low, does not loop, writes nothing and changes no driver state.
C14_IsBusy ==
  /\ [](op = "is_busy" =>
          /\ result = "Ok" /\ todo = <<>> /\ polls = 0
          /\ Len(trace) = 1 /\ trace[1].k = "read"
          /\ ret = RetBool(trace[1].c = "low"))
  /\ [][(op' = "is_busy" /\ busy' = busy)
          => (color' = color /\ panel' = panel /\ inst' = inst /\ trace'[1].c = busy)]_vars

C14_Witness == op = "is_busy" /\ ret = RetBool(TRUE) /\ panel = "Sleeping"

\* C15: in every operation a wait that follows POWER_OFF has returned on a low
\* line and every other wait (before POWER_ON, DISPLAY_REFRESH, POWER_OFF, and
\* the first wait of update_frame and clear_frame) on a high line.
C15_WaitPolarity ==
  /\ \A i \in DOMAIN trace :
       trace[i].k = "wait" =>
         trace[i].c = IF i > 1 /\ trace[i - 1] = EvCmd("POWER_OFF") THEN "low" ELSE "high"
  /\ (op \in {"display_frame", "update_and_display_frame", "clear_frame"} /\ result = "Ok")
       => (trace[Len(trace)] = EvWait("low") /\ trace[Len(trace) - 1] = EvCmd("POWER_OFF"))
  /\ (op \in FrameOps /\ trace # <<>>) => trace[1] = EvWait("high")

C15_Witness == Done("display_frame") /\ trace[7] = EvWait("low") /\ trace[5] = EvWait("high")

\* C16: no command or data byte is on the bus before a hardware reset: an
\* initialization starts with the reset and performs it exactly once, and the
\* other operations run on an instance whose constructor began with the reset.
C16_ResetFirst ==
  /\ (op \in {"new", "wake_up"} /\ trace # <<>>) => trace[1].k = "reset"
  /\ op \in {"new", "wake_up"} => CountKind(trace, "reset") <= 1
  /\ (op \in {"new", "wake_up"} /\ result = "Ok") => CountKind(trace, "reset") = 1
  /\ (op \notin {"new", "wake_up"} /\ BusTraffic(trace) > 0) =>
       (inst /\ ctorTrace # <<>> /\ ctorTrace[1].k = "reset")
  /\ op \notin {"new", "wake_up"} => CountKind(trace, "reset") = 0

C16_Witness == Done("wake_up") /\ CountKind(trace, "reset") = 1 /\ BusTraffic(trace) > 0

\* C17: TCON_RESOLUTION is followed by the data bytes 0x02, 0x58, 0x01, 0xC0
\* (width high, width low, height high, height low), and every
\* DATA_START_TRANSMISSION_1 comes right after a complete resolution sequence.
C17_Resolution ==
  /\ \A i \in DOMAIN trace :
       trace[i] = EvCmd("TCON_RESOLUTION") =>
         /\ \A j \in 1..4 :
              i + j <= Len(trace) =>
                trace[i + j] = EvData(<< 2, 88, 1, 192 >>[j], 1)
         /\ result = "Ok" => i + 5 <= Len(trace) /\ trace[i + 5].k = "cmd"
  /\ \A i \in DOMAIN trace :
       trace[i] = EvCmd("DATA_START_TRANSMISSION_1") =>
         /\ i > 5
         /\ SubSeq(trace, i - 5, i - 1)
              = << EvCmd("TCON_RESOLUTION"), EvData(2, 1), EvData(88, 1),
                   EvData(1, 1), EvData(192, 1) >>

C17_Witness ==
  /\ Done("update_frame") /\ ByteLen(arg) = FrameBytes
  /\ trace[7] = EvCmd("DATA_START_TRANSMISSION_1")

\* C18: new leaves the colour White, and the colour changes only in a call of
\* set_background_color: no other operation, succeeding or failing, and in
\* particular not wake_up, changes it.
C18_ColorFrame ==
  /\ [](op = "new" => color = "White")
  /\ [][color' # color => (op' = "set_background_color" /\ color' = lastSet')]_vars

C18_Witness == op = "wake_up" /\ result \in BusErrors /\ color = "Red"

\* C19: the trace of a successful clear_frame equals the trace of the
\* update_and_display_frame called just before it with the full frame of
\* colors_byte(c, c), c the background colour.
C19_ClearAsUpdateAndDisplay ==
  (Done("clear_frame") /\ prevFull # <<>>) => trace = prevFull

C19_Witness == Done("clear_frame") /\ prevFull # <<>> /\ color = "Yellow"

\* C20: new, wake_up and sleep never read or wait on the busy line and return
\* whatever the line does; only the four frame operations are ever found
\* waiting.
C20_NonBlocking ==
  /\ [](op \in {"new", "wake_up", "sleep"} => <>(result # "none"))
  /\ [](op \in {"new", "wake_up", "sleep"} =>
          /\ polls = 0 /\ LineReads(trace) = 0
          /\ \A i \in DOMAIN todo : todo[i].k # "wait")
  /\ [](Waiting => op \in FrameOps)

C20_Witness == Done("new") /\ busy = "low" /\ polls = 0 /\ LineReads(trace) = 0

====
